---------------------------- MODULE Spec2Model ----------------------------
(***************************************************************************)
(* career-vision: the Gemini service (parseAnalysisText,                   *)
(* generateImageAndAnalysis) and the App component that calls it.          *)
(*                                                                         *)
(* Strings are sequences of tokens.  A token is one character, or one of   *)
(* the literal markers the regular expressions look for, taken as a unit:  *)
(*   "Reason:" "REASON:"        the English reason marker in two casings   *)
(*   "Iyu:"                     the Korean reason marker (U+C774 U+C720 :) *)
(*   "Job Title:" "JOB TITLE:"  the English title marker in two casings    *)
(*   "Jigeopmyeong:"            the Korean title marker                    *)
(*   "LF"                       the line feed, "SP" the space              *)
(*   ","                        the comma of a data URI                    *)
(* No marker is a prefix, suffix or infix of another, so matching on       *)
(* tokens is matching on characters.                                       *)
(***************************************************************************)
EXTENDS Integers, Sequences, FiniteSets, TLC

VARIABLES
    \* ---- parseAnalysisText, called on its own
    text, userPrompt, parsed, parsePc,
    \* ---- generateImageAndAnalysis, one call
    imageBase64, mimeType, genPrompt, request, response, outcome, genPc,
    \* ---- App: the useState cells and the promises in flight
    status, originalImage, prompt, result, error, loadingMessage,
    uploads, calls, started

parseVars == <<text, userPrompt, parsed, parsePc>>
genVars   == <<imageBase64, mimeType, genPrompt, request, response, outcome, genPc>>
appVars   == <<status, originalImage, prompt, result, error, loadingMessage,
               uploads, calls, started>>
vars      == <<parseVars, genVars, appVars>>

-----------------------------------------------------------------------------
(* Bounds *)

MaxLen == 4        \* longest analysis text handed to parseAnalysisText alone
MaxParts == 3      \* most content parts of the first candidate
MaxStarted == 5    \* most asynchronous operations the App starts in one run

-----------------------------------------------------------------------------
(* Optional values: null / undefined, and a present value *)

None == [some |-> FALSE]
Some(v) == [some |-> TRUE, val |-> v]

-----------------------------------------------------------------------------
(* Strings *)

ReasonMarkers == {"Reason:", "REASON:", "Iyu:"}
TitleMarkers == {"Job Title:", "JOB TITLE:", "Jigeopmyeong:"}
Whitespace == {"SP", "LF"}
LineTerminators == {"LF"}
Alphabet == ReasonMarkers \cup TitleMarkers \cup Whitespace \cup {"a"}

RECURSIVE StringsUpTo(_, _)
StringsUpTo(S, n) ==
    IF n = 0 THEN {<<>>}
    ELSE LET shorter == StringsUpTo(S, n - 1)
         IN  shorter \cup {Append(s, c) : s \in {t \in shorter : Len(t) = n - 1}, c \in S}

\* JavaScript truthiness of a string
Truthy(s) == Len(s) > 0

Min(S) == CHOOSE x \in S : \A y \in S : x <= y
Max(S) == CHOOSE x \in S : \A y \in S : x >= y

\* String.prototype.trim
Trim(s) ==
    LET keep == {i \in 1..Len(s) : s[i] \notin Whitespace}
    IN  IF keep = {} THEN <<>> ELSE SubSeq(s, Min(keep), Max(keep))

\* the number of whitespace characters of s from position i on, up to the
\* first character that is none
WhitespaceRun(s, i) ==
    LET stops == {j \in i..Len(s) : s[j] \notin Whitespace}
    IN  IF stops = {} THEN Len(s) - i + 1 ELSE Min(stops) - i

\* text.match(/(?:Reason|..):\s*(.*)/is): the leftmost marker; \s* takes the
\* whole whitespace run (greedy, and .* with the s flag accepts whatever is
\* left), group 1 is the rest of the text
ReasonMatch(s) ==
    LET at == {i \in 1..Len(s) : s[i] \in ReasonMarkers}
    IN  IF at = {} THEN None
        ELSE LET i == Min(at)
                 g == i + 1 + WhitespaceRun(s, i + 1)
             IN  Some([index |-> i, all |-> SubSeq(s, i, Len(s)),
                       group1 |-> SubSeq(s, g, Len(s))])

\* the line feed that ends (.*?)\n when the group starts at g: the first line
\* terminator at or after g ('.' matches none), 0 when there is none
ClosingLineFeed(s, g) ==
    LET lf == {j \in g..Len(s) : s[j] \in LineTerminators}
    IN  IF lf = {} THEN 0 ELSE Min(lf)

\* the pattern tried at the marker at position i: \s* greedy, backing off one
\* character at a time until (.*?)\n finds its line feed
TitleMatchAt(s, i) ==
    LET ks == {k \in 0..WhitespaceRun(s, i + 1) : ClosingLineFeed(s, i + 1 + k) # 0}
    IN  IF ks = {} THEN None
        ELSE LET g == i + 1 + Max(ks)
                 e == ClosingLineFeed(s, g)
             IN  Some([index |-> i, all |-> SubSeq(s, i, e),
                       group1 |-> SubSeq(s, g, e - 1)])

\* text.match(/(?:Job Title|..):\s*(.*?)\n/i): the leftmost position at which
\* the pattern matches
TitleMatch(s) ==
    LET at == {i \in 1..Len(s) : s[i] \in TitleMarkers /\ TitleMatchAt(s, i).some}
    IN  IF at = {} THEN None ELSE TitleMatchAt(s, Min(at))

\* text.replace(pattern, '') with a string pattern: the first occurrence goes
RemoveFirst(s, pat) ==
    LET n == Len(pat)
        at == {i \in 1..(Len(s) - n + 1) : SubSeq(s, i, i + n - 1) = pat}
    IN  IF at = {} THEN s
        ELSE SubSeq(s, 1, Min(at) - 1) \o SubSeq(s, Min(at) + n, Len(s))

FallbackTitle == <<"FALLBACK_TITLE">>   \* the literal fallback title ("analysis result" in Korean)

-----------------------------------------------------------------------------
(* parseAnalysisText *)

parseAnalysisTextTrimsFallback(t, p) ==
    IF Truthy(p)
    THEN LET reasonMatch == ReasonMatch(t)
         IN  [title |-> p,
              description |-> IF reasonMatch.some THEN Trim(reasonMatch.val.group1)
                              ELSE Trim(t)]
    ELSE LET titleMatch == TitleMatch(t)
             reasonMatch == ReasonMatch(t)
         IN  [title |-> IF titleMatch.some THEN Trim(titleMatch.val.group1)
                        ELSE FallbackTitle,
              description |->
                  IF ~reasonMatch.some /\ titleMatch.some
                  THEN Trim(RemoveFirst(t, titleMatch.val.all))
                  ELSE IF reasonMatch.some THEN Trim(reasonMatch.val.group1)
                  ELSE Trim(t)]

parseAnalysisTextKeepsTitleLine(t, p) ==
    IF Truthy(p)
    THEN LET reasonMatch == ReasonMatch(t)
         IN  [title |-> p,
              description |-> IF reasonMatch.some THEN Trim(reasonMatch.val.group1)
                              ELSE t]
    ELSE LET titleMatch == TitleMatch(t)
             reasonMatch == ReasonMatch(t)
         IN  [title |-> IF titleMatch.some THEN Trim(titleMatch.val.group1)
                        ELSE FallbackTitle,
              description |-> IF reasonMatch.some THEN Trim(reasonMatch.val.group1)
                              ELSE t]

parseAnalysisText(t, p) ==
    IF Truthy(p)
    THEN LET reasonMatch == ReasonMatch(t)
         IN  [title |-> p,
              description |-> IF reasonMatch.some THEN Trim(reasonMatch.val.group1)
                              ELSE t]
    ELSE LET titleMatch == TitleMatch(t)
             reasonMatch == ReasonMatch(t)
         IN  [title |-> IF titleMatch.some THEN Trim(titleMatch.val.group1)
                        ELSE FallbackTitle,
              description |->
                  IF ~reasonMatch.some /\ titleMatch.some
                  THEN Trim(RemoveFirst(t, titleMatch.val.all))
                  ELSE IF reasonMatch.some THEN Trim(reasonMatch.val.group1)
                  ELSE t]

-----------------------------------------------------------------------------
(* The uploaded file and its data URI *)

Files ==
    {[type |-> "image/png", bytes |-> <<>>],
     [type |-> "image/png", bytes |-> <<"A", "B">>],
     [type |-> "image/jpeg", bytes |-> <<"B">>]}

\* FileReader.readAsDataURL: data:<type>;base64,<base64 of the bytes>
toBase64(file) == <<"data:", file.type, ";base64", ",">> \o file.bytes

\* String.prototype.split(','): the segments between the commas
RECURSIVE SplitComma(_)
SplitComma(s) ==
    LET at == {i \in 1..Len(s) : s[i] = ","}
    IN  IF at = {} THEN <<s>>
        ELSE <<SubSeq(s, 1, Min(at) - 1)>> \o SplitComma(SubSeq(s, Min(at) + 1, Len(s)))

\* a[i] of a JavaScript array, 0-based: undefined past the end
ArrayAt(a, i) == IF i + 1 <= Len(a) THEN Some(a[i + 1]) ELSE None

-----------------------------------------------------------------------------
(* generateImageAndAnalysis: the request *)

imagePartKeepsPrefix(imageBase64_, mimeType_) ==
    [inlineData |-> [data |-> ArrayAt(SplitComma(imageBase64_), 0),
                     mimeType |-> mimeType_]]

imagePart(imageBase64_, mimeType_) ==
    [inlineData |-> [data |-> ArrayAt(SplitComma(imageBase64_), 1),
                     mimeType |-> mimeType_]]

\* the two instruction templates; "P1".."P4" and "N1".."N3" stand for the
\* fixed wording between the interpolations and the markers
textPromptAlwaysChooses(prompt_) ==
    <<"N1", "Jigeopmyeong:", "N2", "Iyu:", "N3">>

textPrompt(prompt_) ==
    IF Truthy(prompt_)
    THEN <<"P1">> \o prompt_ \o <<"P2">> \o prompt_ \o <<"P3", "Iyu:", "P4">>
         \o prompt_ \o <<"P5">>
    ELSE <<"N1", "Jigeopmyeong:", "N2", "Iyu:", "N3">>

textPart(prompt_) == [text |-> textPrompt(prompt_)]

requestContents(imageBase64_, mimeType_, prompt_) ==
    [parts |-> <<imagePart(imageBase64_, mimeType_), textPart(prompt_)>>]

-----------------------------------------------------------------------------
(* generateImageAndAnalysis: the response *)

Error(message) == [isError |-> TRUE, message |-> message]
NotAnError == [isError |-> FALSE, message |-> <<>>]
Throw(e) == [ok |-> FALSE, error |-> e]
Return(v) == [ok |-> TRUE, value |-> v]

MsgBlockedGeneric ==
    <<"The request was blocked, likely for safety reasons. Please try a different image or prompt.">>
MsgBlockedReason(blockReason) ==
    <<"Request blocked: ", blockReason, ". Please adjust your input.">>
MsgSafetyFinish ==
    <<"Generation failed due to safety concerns. The model cannot process this request. Please try a different image or prompt.">>
MsgSafetyRating(category) ==
    <<"Generation failed due to the safety policy for '", category,
      "'. Please try a different image or prompt.">>
MsgAbnormalStop(finishReason) ==
    <<"Generation stopped unexpectedly: ", finishReason,
      ". Please try a different image or prompt.">>
TryAgain == " Please try again with a different image or prompt."
MsgNeither ==
    <<"API did not return both an image and text. The model may have been unable to fulfill the request.", TryAgain>>
MsgImageNoText ==
    <<"The API returned an image but no descriptive text. The model might have failed to generate the analysis part.", TryAgain>>
MsgTextNoImage ==
    <<"The API returned an analysis but no image. The model might have failed to generate the image part.", TryAgain>>
MsgUnknownApi == <<"An unknown error occurred during the API call.">>

\* `data:${mimeType};base64,${data}`
DataUriOf(inlineData) == <<"data:", inlineData.mimeType, ";base64", ",">> \o inlineData.data

\* the loop over candidate.content.parts: acc is [generatedImage, analysisText]
RECURSIVE ExtractFirstWins(_, _)
ExtractFirstWins(parts, acc) ==
    IF parts = <<>> THEN acc
    ELSE LET part == Head(parts)
         IN  ExtractFirstWins(Tail(parts),
                IF part.inlineData.some
                THEN IF acc.generatedImage.some THEN acc
                     ELSE [acc EXCEPT !.generatedImage = Some(DataUriOf(part.inlineData.val))]
                ELSE IF part.text.some /\ Truthy(part.text.val)
                THEN IF acc.analysisText.some THEN acc
                     ELSE [acc EXCEPT !.analysisText = Some(part.text.val)]
                ELSE acc)

RECURSIVE Extract(_, _)
Extract(parts, acc) ==
    IF parts = <<>> THEN acc
    ELSE LET part == Head(parts)
         IN  Extract(Tail(parts),
                IF part.inlineData.some
                THEN [acc EXCEPT !.generatedImage = Some(DataUriOf(part.inlineData.val))]
                ELSE IF part.text.some /\ Truthy(part.text.val)
                THEN [acc EXCEPT !.analysisText = Some(part.text.val)]
                ELSE acc)

ExtractParts(candidate) ==
    IF candidate.parts.some
    THEN Extract(candidate.parts.val, [generatedImage |-> None, analysisText |-> None])
    ELSE [generatedImage |-> None, analysisText |-> None]

\* safetyRatings?.find(rating => rating.blocked)
FindBlocked(safetyRatings) ==
    IF ~safetyRatings.some THEN None
    ELSE LET at == {i \in 1..Len(safetyRatings.val) : safetyRatings.val[i].blocked}
         IN  IF at = {} THEN None ELSE Some(safetyRatings.val[Min(at)])

\* the branch taken when the image or the text is missing
IncompleteErrorRatingFirst(candidate, got) ==
    LET blockedRating == FindBlocked(candidate.safetyRatings)
    IN  IF blockedRating.some THEN Error(MsgSafetyRating(blockedRating.val.category))
        ELSE IF candidate.finishReason = Some("SAFETY") THEN Error(MsgSafetyFinish)
        ELSE IF candidate.finishReason.some /\ candidate.finishReason.val # "STOP"
        THEN Error(MsgAbnormalStop(candidate.finishReason.val))
        ELSE IF got.generatedImage.some /\ ~got.analysisText.some THEN Error(MsgImageNoText)
        ELSE IF ~got.generatedImage.some /\ got.analysisText.some THEN Error(MsgTextNoImage)
        ELSE Error(MsgNeither)

IncompleteError(candidate, got) ==
    LET blockedRating == FindBlocked(candidate.safetyRatings)
    IN  IF candidate.finishReason = Some("SAFETY") THEN Error(MsgSafetyFinish)
        ELSE IF blockedRating.some THEN Error(MsgSafetyRating(blockedRating.val.category))
        ELSE IF candidate.finishReason.some /\ candidate.finishReason.val # "STOP"
        THEN Error(MsgAbnormalStop(candidate.finishReason.val))
        ELSE IF got.generatedImage.some /\ ~got.analysisText.some THEN Error(MsgImageNoText)
        ELSE IF ~got.generatedImage.some /\ got.analysisText.some THEN Error(MsgTextNoImage)
        ELSE Error(MsgNeither)

NoCandidates(resp) == ~resp.candidates.some \/ Len(resp.candidates.val) = 0

\* the block reason left out of the message
BlockedErrorGeneric(resp) == Error(MsgBlockedGeneric)

BlockedError(resp) ==
    IF resp.blockReason.some THEN Error(MsgBlockedReason(resp.blockReason.val))
    ELSE Error(MsgBlockedGeneric)

\* the body of the try block once generateContent has resolved with resp
interpretPartial(resp, prompt_) ==
    IF NoCandidates(resp) THEN Throw(BlockedError(resp))
    ELSE LET candidate == resp.candidates.val[1]
             got == ExtractParts(candidate)
         IN  IF ~got.generatedImage.some /\ ~got.analysisText.some
             THEN Throw(IncompleteError(candidate, got))
             ELSE LET t == IF got.analysisText.some THEN got.analysisText.val ELSE <<>>
                      p == parseAnalysisText(t, prompt_)
                  IN  Return([image |-> IF got.generatedImage.some
                                        THEN got.generatedImage.val ELSE <<>>,
                              title |-> p.title, description |-> p.description])

interpret(resp, prompt_) ==
    IF NoCandidates(resp) THEN Throw(BlockedError(resp))
    ELSE LET candidate == resp.candidates.val[1]
             got == ExtractParts(candidate)
         IN  IF ~got.generatedImage.some \/ ~got.analysisText.some
             THEN Throw(IncompleteError(candidate, got))
             ELSE LET p == parseAnalysisText(got.analysisText.val, prompt_)
                  IN  Return([image |-> got.generatedImage.val,
                              title |-> p.title, description |-> p.description])

\* the whole call: reply is what ai.models.generateContent settles with,
\* [thrown |-> None, response |-> r] or [thrown |-> Some(e)]; the catch block
\* rethrows an Error and wraps whatever else was thrown
generateImageAndAnalysis(imageBase64_, mimeType_, prompt_, reply) ==
    IF reply.thrown.some
    THEN IF reply.thrown.val.isError THEN Throw(reply.thrown.val)
         ELSE Throw(Error(MsgUnknownApi))
    ELSE interpret(reply.response, prompt_)

-----------------------------------------------------------------------------
(* The inputs the specifications draw from *)

Texts == StringsUpTo(Alphabet, MaxLen)
Prompts == {<<>>, <<"a">>, <<"Jigeopmyeong:">>}

InlineDatas ==
    {[mimeType |-> "image/png", data |-> <<"X">>],
     [mimeType |-> "image/jpeg", data |-> <<"Y">>]}
PartTexts == {<<>>, <<"a">>, <<"Iyu:">>}
Parts ==
    [inlineData : {None} \cup {Some(d) : d \in InlineDatas},
     text : {None} \cup {Some(t) : t \in PartTexts}]
FinishReasons == {None, Some("STOP"), Some("SAFETY"), Some("MAX_TOKENS")}
SafetyRatingLists ==
    {None, Some(<<>>),
     Some(<<[category |-> "HARASSMENT", blocked |-> FALSE]>>),
     Some(<<[category |-> "HARASSMENT", blocked |-> TRUE]>>),
     Some(<<[category |-> "HARASSMENT", blocked |-> FALSE],
            [category |-> "DANGEROUS", blocked |-> TRUE]>>),
     Some(<<[category |-> "HARASSMENT", blocked |-> TRUE],
            [category |-> "DANGEROUS", blocked |-> TRUE]>>)}
\* every list of parts with the plain metadata, and every metadata with the
\* short lists of parts
Candidates ==
    [parts : {None} \cup {Some(l) : l \in StringsUpTo(Parts, MaxParts)},
     finishReason : FinishReasons,
     safetyRatings : {None, Some(<<[category |-> "HARASSMENT", blocked |-> TRUE]>>)}]
    \cup [parts : {None} \cup {Some(l) : l \in StringsUpTo(Parts, 1)},
          finishReason : FinishReasons,
          safetyRatings : SafetyRatingLists]
ShortCandidates == {c \in Candidates : c.parts.some => Len(c.parts.val) <= 1}
\* a further candidate that holds both an image and a text
CompleteCandidate ==
    [parts |-> Some(<<[inlineData |-> Some([mimeType |-> "image/png", data |-> <<"Z">>]),
                       text |-> None],
                      [inlineData |-> None, text |-> Some(<<"Iyu:", "a">>)]>>),
     finishReason |-> Some("STOP"), safetyRatings |-> None]
BlockReasons == {None, Some("SAFETY"), Some("OTHER")}
Responses ==
    [candidates : {None, Some(<<>>)}, blockReason : BlockReasons]
    \cup [candidates : {Some(<<c>>) : c \in Candidates}
                       \cup {Some(<<c, CompleteCandidate>>) : c \in ShortCandidates},
          blockReason : {None}]
Thrown == {Error(<<"fetch failed">>), NotAnError}
Replies ==
    {[thrown |-> None, response |-> r] : r \in Responses}
    \cup {[thrown |-> Some(e)] : e \in Thrown}

-----------------------------------------------------------------------------
(* parseAnalysisText called on its own *)

ParseIdle ==
    /\ text = <<>> /\ userPrompt = <<>> /\ parsed = None /\ parsePc = "off"
GenIdle ==
    /\ imageBase64 = <<>> /\ mimeType = "" /\ genPrompt = <<>>
    /\ request = None /\ response = None /\ outcome = None /\ genPc = "off"
AppIdle ==
    /\ status = "IDLE" /\ originalImage = None /\ prompt = <<>> /\ result = None
    /\ error = None /\ loadingMessage = <<>>
    /\ uploads = {} /\ calls = {} /\ started = 0

ParseInit ==
    /\ text \in Texts
    /\ userPrompt \in Prompts
    /\ parsed = None
    /\ parsePc = "call"
    /\ GenIdle /\ AppIdle

Parse ==
    /\ parsePc = "call"
    /\ parsed' = Some(parseAnalysisText(text, userPrompt))
    /\ parsePc' = "done"
    /\ UNCHANGED <<text, userPrompt, genVars, appVars>>

ParseNext == Parse
SpecParse == ParseInit /\ [][ParseNext]_vars

-----------------------------------------------------------------------------
(* One call of generateImageAndAnalysis *)

GenInit ==
    /\ \E file \in Files : imageBase64 = toBase64(file) /\ mimeType = file.type
    /\ genPrompt \in Prompts
    /\ request = None /\ response = None /\ outcome = None
    /\ genPc = "compose"
    /\ ParseIdle /\ AppIdle

\* up to the call of ai.models.generateContent
GenCompose ==
    /\ genPc = "compose"
    /\ request' = Some(requestContents(imageBase64, mimeType, genPrompt))
    /\ genPc' = "await"
    /\ UNCHANGED <<imageBase64, mimeType, genPrompt, response, outcome, parseVars, appVars>>

\* generateContent settles and the rest of the function runs
GenSettle ==
    /\ genPc = "await"
    /\ \E reply \in Replies :
         /\ response' = Some(reply)
         /\ outcome' = Some(generateImageAndAnalysis(imageBase64, mimeType, genPrompt, reply))
    /\ genPc' = "done"
    /\ UNCHANGED <<imageBase64, mimeType, genPrompt, request, parseVars, appVars>>

GenNext == GenCompose \/ GenSettle
SpecGen == GenInit /\ [][GenNext]_vars

-----------------------------------------------------------------------------
(* App *)

AppPrompts == {<<>>, <<"a">>}
AppFiles == {f \in Files : f.bytes # <<>>}
ImageOnlyCandidate ==
    [parts |-> Some(<<[inlineData |-> Some([mimeType |-> "image/png", data |-> <<"Z">>]),
                       text |-> None]>>),
     finishReason |-> Some("STOP"), safetyRatings |-> None]
\* what generateContent settles with in the App's runs
AppReplies ==
    {[thrown |-> None, response |-> [candidates |-> Some(<<CompleteCandidate>>),
                                     blockReason |-> None]],
     [thrown |-> None, response |-> [candidates |-> Some(<<ImageOnlyCandidate>>),
                                     blockReason |-> None]],
     [thrown |-> None, response |-> [candidates |-> None, blockReason |-> Some("SAFETY")]],
     [thrown |-> Some(Error(<<"fetch failed">>))],
     [thrown |-> Some(NotAnError)]}

MsgReadFailed == <<"MSG_IMAGE_READ_FAILED">>     \* the message set at line 187
MsgUnknownApp == <<"MSG_UNKNOWN_ERROR">>         \* the message of line 207
MsgPreparing == <<"MSG_PREPARING_IMAGE">>        \* the message of line 180
MsgAnalysing == <<"MSG_ANALYSING">>              \* the second message of line 198
MsgTransforming(p) == <<"QUOTE">> \o p \o <<"MSG_TRANSFORMING">>

isLoading == status = "PROCESSING"

\* what App renders
UploaderShown == status = "IDLE" /\ ~originalImage.some
PreviewShown == status # "SUCCESS" /\ originalImage.some
ResultShown == status = "SUCCESS" /\ result.some /\ originalImage.some

\* the controls and their disabled attributes
UploadEnabled == UploaderShown /\ status # "PROCESSING"
GenerateEnabled == PreviewShown /\ ~isLoading
RegenerateEnabled == ResultShown /\ ~(isLoading \/ ~Truthy(prompt))
PromptEnabled == (PreviewShown \/ ResultShown) /\ ~isLoading
ResetEnabled == PreviewShown \/ ResultShown

AppInit ==
    /\ status = "IDLE"
    /\ originalImage = None
    /\ prompt = <<>>
    /\ result = None
    /\ error = None
    /\ loadingMessage = <<>>
    /\ uploads = {}
    /\ calls = {}
    /\ started = 0
    /\ ParseIdle /\ GenIdle

\* handleImageUpload up to its await
UploadStart(file) ==
    /\ UploadEnabled
    /\ started < MaxStarted
    /\ status' = "PROCESSING"
    /\ loadingMessage' = MsgPreparing
    /\ error' = None
    /\ uploads' = uploads \cup {[id |-> started, file |-> file]}
    /\ started' = started + 1
    /\ UNCHANGED <<originalImage, prompt, result, calls>>

\* toBase64 resolved: the try block and finally
UploadResolve(u) ==
    /\ u \in uploads
    /\ originalImage' = Some([file |-> u.file, base64 |-> toBase64(u.file)])
    /\ status' = "IDLE"
    /\ loadingMessage' = <<>>
    /\ uploads' = uploads \ {u}
    /\ UNCHANGED <<prompt, result, error, calls, started>>

\* toBase64 rejected: the catch block and finally
UploadReject(u) ==
    /\ u \in uploads
    /\ error' = Some(MsgReadFailed)
    /\ status' = "ERROR"
    /\ loadingMessage' = <<>>
    /\ uploads' = uploads \ {u}
    /\ UNCHANGED <<originalImage, prompt, result, calls, started>>

\* onChange of either prompt input
ChangePrompt(p) ==
    /\ PromptEnabled
    /\ prompt' = p
    /\ UNCHANGED <<status, originalImage, result, error, loadingMessage,
                   uploads, calls, started>>

\* handleGenerate up to its await; the closure holds originalImage and prompt
GenerateStart ==
    /\ GenerateEnabled \/ RegenerateEnabled
    /\ originalImage.some
    /\ started < MaxStarted
    /\ status' = "PROCESSING"
    /\ loadingMessage' = IF Truthy(prompt) THEN MsgTransforming(prompt) ELSE MsgAnalysing
    /\ error' = None
    /\ result' = None
    /\ calls' = calls \cup {[id |-> started,
                             imageBase64 |-> originalImage.val.base64,
                             mimeType |-> originalImage.val.file.type,
                             prompt |-> prompt]}
    /\ started' = started + 1
    /\ UNCHANGED <<originalImage, prompt, uploads>>

CallOutcome(c, reply) ==
    generateImageAndAnalysis(c.imageBase64, c.mimeType, c.prompt, reply)

\* e instanceof Error ? e.message : the unknown-error message
handleGenerateErrorMessage(e) == IF e.isError THEN e.message ELSE MsgUnknownApp

\* the awaited call returned: the try block and finally
GenerateResolve(c, reply) ==
    /\ c \in calls
    /\ CallOutcome(c, reply).ok
    /\ result' = Some(CallOutcome(c, reply).value)
    /\ status' = "SUCCESS"
    /\ loadingMessage' = <<>>
    /\ calls' = calls \ {c}
    /\ UNCHANGED <<originalImage, prompt, error, uploads, started>>

\* the awaited call threw: the catch block and finally
GenerateReject(c, reply) ==
    /\ c \in calls
    /\ ~CallOutcome(c, reply).ok
    /\ error' = Some(handleGenerateErrorMessage(CallOutcome(c, reply).error))
    /\ status' = "ERROR"
    /\ loadingMessage' = <<>>
    /\ calls' = calls \ {c}
    /\ UNCHANGED <<originalImage, prompt, result, uploads, started>>

\* handleResetAll, from either reset button (neither has a disabled attribute)
ResetAll ==
    /\ ResetEnabled
    /\ status' = "IDLE"
    /\ originalImage' = None
    /\ prompt' = <<>>
    /\ result' = None
    /\ error' = None
    /\ UNCHANGED <<loadingMessage, uploads, calls, started>>

AppNext ==
    \/ \E file \in AppFiles : UploadStart(file) /\ UNCHANGED <<parseVars, genVars>>
    \/ \E u \in uploads : UploadResolve(u) /\ UNCHANGED <<parseVars, genVars>>
    \/ \E u \in uploads : UploadReject(u) /\ UNCHANGED <<parseVars, genVars>>
    \/ \E p \in AppPrompts : ChangePrompt(p) /\ UNCHANGED <<parseVars, genVars>>
    \/ GenerateStart /\ UNCHANGED <<parseVars, genVars>>
    \/ \E c \in calls, reply \in AppReplies :
          GenerateResolve(c, reply) /\ UNCHANGED <<parseVars, genVars>>
    \/ \E c \in calls, reply \in AppReplies :
          GenerateReject(c, reply) /\ UNCHANGED <<parseVars, genVars>>
    \/ ResetAll /\ UNCHANGED <<parseVars, genVars>>

Spec == AppInit /\ [][AppNext]_vars

-----------------------------------------------------------------------------
(* What the claims speak of, stated on the inputs *)

GenDone == genPc = "done"
Reply == response.val
Outcome == outcome.val
Resolved == GenDone /\ ~Reply.thrown.some
HasCandidates ==
    Resolved /\ Reply.response.candidates.some /\ Len(Reply.response.candidates.val) > 0
FirstCandidate == Reply.response.candidates.val[1]

PartsOf(c) == IF c.parts.some THEN c.parts.val ELSE <<>>
ImagePartsAt(c) == {i \in 1..Len(PartsOf(c)) : PartsOf(c)[i].inlineData.some}
\* parts that carry a text field, whatever it holds
TextFieldPartsAt(c) == {i \in 1..Len(PartsOf(c)) : PartsOf(c)[i].text.some}
\* parts that carry no image and a text of at least one character
TextPartsAt(c) ==
    {i \in 1..Len(PartsOf(c)) :
        /\ ~PartsOf(c)[i].inlineData.some
        /\ PartsOf(c)[i].text.some
        /\ PartsOf(c)[i].text.val # <<>>}
LastImage(c) ==
    LET d == PartsOf(c)[Max(ImagePartsAt(c))].inlineData.val
    IN  <<"data:", d.mimeType, ";base64", ",">> \o d.data
YieldsBoth(c) == ImagePartsAt(c) # {} /\ TextPartsAt(c) # {}

IsGenerationResult(v) == DOMAIN v = {"image", "title", "description"}
IsClassifiedError(e) == e.isError /\ Len(e.message) > 0

\* C1: generateImageAndAnalysis returns a GenerationResult only when the parts
\* of the first candidate yielded both an image and an analysis text; whenever
\* one of them is missing it throws an Error with a message and returns
\* nothing, not even a partial result.
C1_AllOrNothing ==
    GenDone =>
        /\ Outcome.ok <=> (HasCandidates /\ YieldsBoth(FirstCandidate))
        /\ Outcome.ok => IsGenerationResult(Outcome.value)
        /\ ~Outcome.ok => (DOMAIN Outcome = {"ok", "error"} /\ IsClassifiedError(Outcome.error))

C1_Witness ==
    /\ HasCandidates
    /\ ImagePartsAt(FirstCandidate) # {}
    /\ TextPartsAt(FirstCandidate) = {}
    /\ ~Outcome.ok

\* C2 as claimed: whenever some candidate of the response holds an image part
\* and a text part, whatever the text, the call returns a result whose image
\* is the data URI of the last image part of that candidate.
C2_Original ==
    Resolved /\ Reply.response.candidates.some =>
        \A k \in 1..Len(Reply.response.candidates.val) :
            LET c == Reply.response.candidates.val[k]
            IN  (ImagePartsAt(c) # {} /\ TextFieldPartsAt(c) # {}) =>
                    (Outcome.ok /\ Outcome.value.image = LastImage(c))

\* C2 as amended: whenever the first candidate holds an image part and a part
\* without image data whose text is not empty, the call returns a result
\* whose image is data:<mimeType>;base64,<data> of the last image part of the
\* first candidate, whatever the finish reason and the safety ratings.
C2_LastImageWins ==
    (HasCandidates /\ YieldsBoth(FirstCandidate)) =>
        (Outcome.ok /\ Outcome.value.image = LastImage(FirstCandidate))

C2_Witness ==
    /\ HasCandidates
    /\ YieldsBoth(FirstCandidate)
    /\ Cardinality(ImagePartsAt(FirstCandidate)) = 2
    /\ PartsOf(FirstCandidate)[1].inlineData # PartsOf(FirstCandidate)[2].inlineData
    /\ FirstCandidate.finishReason = Some("SAFETY")
    /\ Outcome.ok

\* C3: a response with no candidates (the list absent or empty) always fails
\* with the blocked-request error, whatever else the response holds: its
\* message names promptFeedback.blockReason when there is one and is the
\* generic safety-block message otherwise.
C3_NoCandidatesBlocked ==
    (Resolved /\ ~HasCandidates) =>
        /\ ~Outcome.ok
        /\ Outcome.error.isError
        /\ Outcome.error.message =
              IF Reply.response.blockReason.some
              THEN <<"Request blocked: ", Reply.response.blockReason.val,
                     ". Please adjust your input.">>
              ELSE MsgBlockedGeneric

C3_Witness ==
    /\ Resolved
    /\ Reply.response.candidates = Some(<<>>)
    /\ Reply.response.blockReason = Some("OTHER")
    /\ ~Outcome.ok

BlockedRatings(c) ==
    IF c.safetyRatings.some
    THEN {c.safetyRatings.val[i] : i \in {j \in 1..Len(c.safetyRatings.val) :
                                             c.safetyRatings.val[j].blocked}}
    ELSE {}

\* C4: when the image or the text is missing, one failure is produced, chosen
\* in this order: finish reason SAFETY gives the safety message, even if a
\* rating is blocked too; otherwise a blocked rating gives the safety-policy
\* message naming its category, even if the finish reason is another non-STOP
\* value; otherwise a finish reason other than STOP gives the abnormal-stop
\* message naming it; otherwise the incomplete message, which tells
\* image-but-no-text, text-but-no-image and neither apart.
C4_FailurePrecedence ==
    (HasCandidates /\ ~YieldsBoth(FirstCandidate)) =>
        LET c == FirstCandidate
            m == Outcome.error.message
        IN  /\ ~Outcome.ok
            /\ Outcome.error.isError
            /\ IF c.finishReason = Some("SAFETY") THEN m = MsgSafetyFinish
               ELSE IF BlockedRatings(c) # {}
               THEN \E r \in BlockedRatings(c) : m = MsgSafetyRating(r.category)
               ELSE IF c.finishReason.some /\ c.finishReason.val # "STOP"
               THEN m = MsgAbnormalStop(c.finishReason.val)
               ELSE IF ImagePartsAt(c) # {} THEN m = MsgImageNoText
               ELSE IF TextPartsAt(c) # {} THEN m = MsgTextNoImage
               ELSE m = MsgNeither

C4_Witness ==
    /\ HasCandidates
    /\ ~YieldsBoth(FirstCandidate)
    /\ FirstCandidate.finishReason = Some("MAX_TOKENS")
    /\ BlockedRatings(FirstCandidate) # {}
    /\ Outcome.error.message = MsgSafetyRating("HARASSMENT")

-----------------------------------------------------------------------------
(* parseAnalysisText: the claims *)

ParseDone == parsePc = "done"
Parsed == parsed.val
MarkersAt(t, M) == {i \in 1..Len(t) : t[i] \in M}
HasMarker(t, M) == MarkersAt(t, M) # {}
\* the text after the first marker of M, to the end
AfterFirstMarker(t, M) == SubSeq(t, Min(MarkersAt(t, M)) + 1, Len(t))
\* t up to, and without, its first line break; all of t when it has none
UpToLineBreak(t) ==
    LET lf == {i \in 1..Len(t) : t[i] = "LF"}
    IN  IF lf = {} THEN t ELSE SubSeq(t, 1, Min(lf) - 1)

\* C5 as claimed: with a prompt, title is the prompt and description is the
\* trimmed text after the first reason marker, or the whole text, trimmed,
\* when there is no reason marker.
C5_Original ==
    (ParseDone /\ Truthy(userPrompt)) =>
        /\ Parsed.title = userPrompt
        /\ Parsed.description =
              IF HasMarker(text, ReasonMarkers)
              THEN Trim(AfterFirstMarker(text, ReasonMarkers))
              ELSE Trim(text)

\* C5 as amended: with a prompt, title is the prompt verbatim, whatever title
\* marker the text holds; description is the trimmed text after the first
\* reason marker (in any casing) to the end of the text, across line breaks;
\* when there is no reason marker, description is the whole raw text as it
\* is, not trimmed.
C5_PromptPath ==
    (ParseDone /\ Truthy(userPrompt)) =>
        /\ Parsed.title = userPrompt
        /\ Parsed.description =
              IF HasMarker(text, ReasonMarkers)
              THEN Trim(AfterFirstMarker(text, ReasonMarkers))
              ELSE text

C5_Witness ==
    /\ ParseDone /\ Truthy(userPrompt)
    /\ HasMarker(text, TitleMarkers)
    /\ ~HasMarker(text, ReasonMarkers)
    /\ Trim(text) # text
    /\ Parsed.description = text

\* C6: without a prompt, title is the trimmed text between the first title
\* marker and the next line break, and it is the fallback literal exactly when
\* the text holds no title marker, also when the marker's line is the last
\* line of the text.
C6_Claim ==
    (ParseDone /\ ~Truthy(userPrompt)) =>
        Parsed.title =
            IF HasMarker(text, TitleMarkers)
            THEN Trim(UpToLineBreak(AfterFirstMarker(text, TitleMarkers)))
            ELSE FallbackTitle

\* the title pattern matched, and the line it matched
TitleFound == TitleMatch(text).some
WithoutTitleLine ==
    LET m == TitleMatch(text).val
    IN  SubSeq(text, 1, m.index - 1) \o SubSeq(text, m.index + Len(m.all), Len(text))

-----------------------------------------------------------------------------
(* generateImageAndAnalysis: the result and the request *)

\* C8: every GenerationResult returned has an image of at least one character
\* and a description of at least one character, whatever text passed the
\* completeness check.
C8_Claim ==
    (GenDone /\ Outcome.ok) =>
        (Len(Outcome.value.image) > 0 /\ Len(Outcome.value.description) > 0)

Contains(t, c) == \E i \in 1..Len(t) : t[i] = c
FirstAt(t, c) == Min({i \in 1..Len(t) : t[i] = c})
AfterFirstComma(t) == SubSeq(t, FirstAt(t, ",") + 1, Len(t))
Composed == genPc # "compose"
RequestParts == request.val.parts
TwoPartsInOrder ==
    /\ Len(RequestParts) = 2
    /\ DOMAIN RequestParts[1] = {"inlineData"}
    /\ DOMAIN RequestParts[2] = {"text"}
    /\ RequestParts[1].inlineData.data = Some(AfterFirstComma(imageBase64))
    /\ RequestParts[1].inlineData.mimeType = mimeType
Instruction == RequestParts[2].text

\* C9 as claimed: the request has the image part and then the instruction
\* part; the image part carries the data after the first comma and the
\* mimeType; the instruction holds the reason marker and no title marker when
\* the prompt is not empty, and the title marker before the reason marker when
\* it is empty.
C9_Original ==
    Composed =>
        /\ TwoPartsInOrder
        /\ Truthy(genPrompt) =>
              (Contains(Instruction, "Iyu:") /\ ~Contains(Instruction, "Jigeopmyeong:"))
        /\ ~Truthy(genPrompt) =>
              /\ Contains(Instruction, "Jigeopmyeong:")
              /\ Contains(Instruction, "Iyu:")
              /\ FirstAt(Instruction, "Jigeopmyeong:") < FirstAt(Instruction, "Iyu:")

\* C9 as amended: as claimed, except that with a prompt the instruction
\* holds the title marker exactly when the prompt itself does (the prompt is
\* copied into the instruction).
C9_Request ==
    Composed =>
        /\ TwoPartsInOrder
        /\ Truthy(genPrompt) =>
              /\ Contains(Instruction, "Iyu:")
              /\ Contains(Instruction, "Jigeopmyeong:") <=> Contains(genPrompt, "Jigeopmyeong:")
        /\ ~Truthy(genPrompt) =>
              /\ Contains(Instruction, "Jigeopmyeong:")
              /\ Contains(Instruction, "Iyu:")
              /\ FirstAt(Instruction, "Jigeopmyeong:") < FirstAt(Instruction, "Iyu:")

C9_Witness ==
    /\ Composed
    /\ genPrompt = <<"a">>
    /\ Len(AfterFirstComma(imageBase64)) = 2
    /\ Contains(Instruction, "Iyu:")
    /\ ~Contains(Instruction, "Jigeopmyeong:")

-----------------------------------------------------------------------------
(* App: the claims *)

\* C10: when the call awaited by handleGenerate fails, the App is left with
\* no result, status ERROR and the failure's message in error, with the
\* uploaded image and the prompt as they were, so that the generate button is
\* rendered and enabled again.
C10_Claim ==
    [][\A c \in calls, reply \in AppReplies :
          GenerateReject(c, reply) =>
              /\ result' = None
              /\ status' = "ERROR"
              /\ error' = Some(handleGenerateErrorMessage(CallOutcome(c, reply).error))
              /\ originalImage' = originalImage
              /\ originalImage'.some
              /\ originalImage'.val.base64 = c.imageBase64
              /\ prompt' = c.prompt
              /\ GenerateEnabled']_vars


\* C11: in every reachable App state, whatever the order of uploads,
\* generates, resets and completions, status SUCCESS comes with a result and
\* an uploaded image, and at most one generate call is outstanding; a call
\* that completes after a reset installs no result for the discarded image.
C11_Claim ==
    /\ status = "SUCCESS" => (result.some /\ originalImage.some)
    /\ Cardinality(calls) <= 1

\* C12: whenever no upload and no generate call is outstanding, the uploader,
\* the generate button or a reset button is rendered and enabled, so the user
\* can get back to IDLE with the uploader shown; also after the read of the
\* uploaded file failed with no image stored (status ERROR, originalImage
\* null).
C12_Claim ==
    (uploads = {} /\ calls = {}) =>
        (UploadEnabled \/ GenerateEnabled \/ RegenerateEnabled \/ ResetEnabled)

=============================================================================
